---- MODULE Spec2Model ----
(***************************************************************************)
(* Model of the sales dashboard's Insights Engine (src/utils/insights.py)  *)
(* and of the filter pipeline of the dashboard's main() (src/utils/app.py).*)
(*                                                                         *)
(* A dataset (pandas DataFrame) is a record                                *)
(*     [columns : sequence of column names, rows : sequence of rows]       *)
(* and a row is a function from the column names to cells.  Every cell is  *)
(* a record [k, s, n]:                                                     *)
(*     k = "str"  a text value s            (object column)                *)
(*     k = "num"  the number n              (numeric column)               *)
(*     k = "nan"  a missing value           (NaN / NaT)                    *)
(*     k = "ts"   a timestamp, n = yyyymmdd (datetime64 column)            *)
(* Floating-point results are rationals [num, den]; den = 0 encodes the    *)
(* IEEE values numpy produces instead of raising: 0/0 is NaN, n/0 is +-inf.*)
(***************************************************************************)
EXTENDS Integers, Sequences, FiniteSets, TLC

\* Bounds of the model: the largest number of rows of a dataset handed to the
\* engine, and of the dataset the dashboard loads.
MaxRows == 3

MaxLoadedRows == 2

VARIABLES
    df,                   \* main(): the dataset load_data() returned (cached)
    selected_status,      \* main(): the status selectbox
    selected_channel,     \* main(): the sales-channel selectbox
    selected_categories,  \* main(): the category multiselect (a set)
    selected_states,      \* main(): the ship-state multiselect (a set)
    filtered_df,          \* main(): the filtered view, the frame handed to the engine
    called,               \* the engine function called last ("none" before any call)
    arg,                  \* the frame as it was when that function was called
    result,               \* the mapping that call returned (<<>> when it raised)
    raised                \* the exception that call raised ("none" when it returned)

vars == <<df, selected_status, selected_channel, selected_categories,
          selected_states, filtered_df, called, arg, result, raised>>

(***************************************************************************)
(* Cells                                                                   *)
(***************************************************************************)
Str(s) == [k |-> "str", s |-> s, n |-> 0]
Num(n) == [k |-> "num", s |-> "", n |-> n]
NA == [k |-> "nan", s |-> "", n |-> 0]
Ts(n) == [k |-> "ts", s |-> "", n |-> n]

\* pandas isna / notna of one cell
notna(c) == c.k # "nan"

(***************************************************************************)
(* Floating point as rationals                                             *)
(***************************************************************************)
Abs(i) == IF i < 0 THEN -i ELSE i

Sign(i) == IF i < 0 THEN -1 ELSE IF i > 0 THEN 1 ELSE 0

RECURSIVE Gcd(_, _)
Gcd(a, b) == IF b = 0 THEN a ELSE Gcd(b, a % b)

\* the float n/d, in lowest terms with a positive denominator; d = 0 gives
\* NaN (0/0) or a signed infinity (numpy true division does not raise)
Rat(n, d) ==
    IF d = 0 THEN [num |-> Sign(n), den |-> 0]
    ELSE LET g == Gcd(Abs(n), Abs(d))
             s == Sign(d)
         IN  [num |-> (s * n) \div g, den |-> (s * d) \div g]

NaN == Rat(0, 0)

IsNaN(x) == x.den = 0 /\ x.num = 0

RatAdd(x, y) ==
    IF IsNaN(x) \/ IsNaN(y) THEN NaN
    ELSE IF x.den = 0 /\ y.den = 0
         THEN (IF x.num = y.num THEN x ELSE NaN)
    ELSE IF x.den = 0 THEN x
    ELSE IF y.den = 0 THEN y
    ELSE Rat(x.num * y.den + y.num * x.den, x.den * y.den)

RatNeg(x) == [num |-> -x.num, den |-> x.den]

RatSub(x, y) == RatAdd(x, RatNeg(y))

RatMul(x, y) ==
    IF IsNaN(x) \/ IsNaN(y) THEN NaN
    ELSE IF x.den = 0 \/ y.den = 0
         THEN Rat(Sign(x.num) * Sign(y.num), 0)
    ELSE Rat(x.num * y.num, x.den * y.den)

\* IEEE division: x/0 is NaN for x = 0 and +-inf otherwise
RatDiv(x, y) ==
    IF IsNaN(x) \/ IsNaN(y) THEN NaN
    ELSE IF y.den = 0 THEN (IF x.den = 0 THEN NaN ELSE Rat(0, 1))
    ELSE IF x.den = 0 THEN Rat(x.num * (IF y.num < 0 THEN -1 ELSE 1), 0)
    ELSE IF y.num = 0 THEN Rat(x.num, 0)
    ELSE Rat(x.num * y.den, x.den * y.num)

\* IEEE comparisons: every comparison with NaN is false
RatLt(x, y) ==
    /\ ~IsNaN(x) /\ ~IsNaN(y)
    /\ IF x.den = 0 /\ y.den = 0 THEN x.num < y.num
       ELSE IF x.den = 0 THEN x.num < 0
       ELSE IF y.den = 0 THEN y.num > 0
       ELSE x.num * y.den < y.num * x.den

RatLe(x, y) == ~IsNaN(x) /\ ~IsNaN(y) /\ ~RatLt(y, x)

RatGt(x, y) == RatLt(y, x)

RatGe(x, y) == RatLe(y, x)

\* the float value of a cell of a numeric column
Val(c) == IF c.k = "nan" THEN NaN ELSE Rat(c.n, 1)

(***************************************************************************)
(* Frames and series                                                       *)
(***************************************************************************)
\* len(df)
len(d) == Len(d.rows)

\* c in df.columns
HasCol(d, c) == \E i \in 1..Len(d.columns) : d.columns[i] = c

\* df[c]: the column as a sequence of cells
Col(d, c) == [i \in 1..Len(d.rows) |-> d.rows[i][c]]

\* df[mask]: the rows whose index satisfies the boolean mask, in order
RECURSIVE Select(_, _, _)
Select(rows, keep, i) ==
    IF i > Len(rows) THEN <<>>
    ELSE (IF keep[i] THEN <<rows[i]>> ELSE <<>>) \o Select(rows, keep, i + 1)

Where(d, keep) == [columns |-> d.columns, rows |-> Select(d.rows, keep, 1)]

\* the cells of a series that are not missing (pandas skips NaN in reductions)
dropna(ser) == SelectSeq(ser, notna)

\* Series.count()
count(ser) == Len(dropna(ser))

RECURSIVE SumCells(_, _)
SumCells(ser, i) == IF i > Len(ser) THEN 0 ELSE ser[i].n + SumCells(ser, i + 1)

\* Series.sum(): NaN skipped, 0 for an empty series
sum(ser) == Rat(SumCells(dropna(ser), 1), 1)

\* a faulty mean: the sum divided by the length of the series, missing
\* values included
mean_over_rows(ser) == RatDiv(sum(ser), Rat(Len(ser), 1))

\* Series.mean(): NaN (0/0) when no value is present
mean(ser) == RatDiv(sum(ser), Rat(count(ser), 1))

RECURSIVE SumSqDev(_, _, _)
SumSqDev(ser, m, i) ==
    IF i > Len(ser) THEN Rat(0, 1)
    ELSE LET dev == RatSub(Rat(ser[i].n, 1), m)
         IN  RatAdd(RatMul(dev, dev), SumSqDev(ser, m, i + 1))

\* Series.std() (ddof = 1), kept as the variance it is the square root of;
\* NaN with fewer than two values
std(ser) ==
    LET xs == dropna(ser)
    IN  IF Len(xs) < 2 THEN NaN
        ELSE RatDiv(SumSqDev(xs, mean(xs), 1), Rat(Len(xs) - 1, 1))

\* the text values of the model in Python's string order, with their lengths
StrTable ==
    << [s |-> "2022-04-30", len |-> 10], [s |-> "2022-05-01", len |-> 10],
       [s |-> "405-8078784-5731545", len |-> 19], [s |-> "Amazon", len |-> 6],
       [s |-> "Amazon.in", len |-> 9], [s |-> "B09K3WFS32", len |-> 10],
       [s |-> "BLR", len |-> 3], [s |-> "Cancelled", len |-> 9],
       [s |-> "Expedited", len |-> 9], [s |-> "IN", len |-> 2],
       [s |-> "INR", len |-> 3], [s |-> "JNE3781", len |-> 7],
       [s |-> "KA", len |-> 2], [s |-> "L", len |-> 1], [s |-> "M", len |-> 1],
       [s |-> "MH", len |-> 2], [s |-> "MUM", len |-> 3],
       [s |-> "Merchant", len |-> 8], [s |-> "SET389", len |-> 6],
       [s |-> "Set", len |-> 3], [s |-> "Shipped", len |-> 7],
       [s |-> "Standard", len |-> 8], [s |-> "kurta", len |-> 5],
       [s |-> "not-a-date", len |-> 10] >>

\* the place of a text value in that order
Rank(s) == CHOOSE i \in 1..Len(StrTable) : StrTable[i].s = s

\* len(s)
StrLen(s) == StrTable[Rank(s)].len

\* insertion of the keyed element x into a sequence sorted by key, after the
\* elements whose key is not above its own
RECURSIVE InsertOrd(_, _)
InsertOrd(x, xs) ==
    IF xs = <<>> THEN <<x>>
    ELSE IF RatLt(x.ord, Head(xs).ord) THEN <<x>> \o xs
    ELSE <<Head(xs)>> \o InsertOrd(x, Tail(xs))

\* a stable ascending sort of keyed elements [ord, it]: equal keys keep their
\* order (numpy sorts arrays this short by insertion)
RECURSIVE SortOrd(_)
SortOrd(xs) ==
    IF xs = <<>> THEN <<>>
    ELSE InsertOrd(xs[Len(xs)], SortOrd(SubSeq(xs, 1, Len(xs) - 1)))

Items(xs) == [i \in 1..Len(xs) |-> xs[i].it]

CellOrd(c) == IF c.k = "str" THEN Rat(Rank(c.s), 1) ELSE Rat(c.n, 1)

\* the values present in a series, ascending
sorted(ser) ==
    LET xs == dropna(ser)
    IN  Items(SortOrd([i \in 1..Len(xs) |-> [ord |-> CellOrd(xs[i]), it |-> xs[i]]]))

\* Series.max() / Series.min(): NaN for a series without values
max(ser) == LET xs == sorted(ser) IN IF xs = <<>> THEN NaN ELSE Val(xs[Len(xs)])

min(ser) == LET xs == sorted(ser) IN IF xs = <<>> THEN NaN ELSE Val(xs[1])

\* quantile of an ascending sequence of floats at qn/qd, numpy's default
\* linear interpolation: position (n-1)*q, between the two neighbours
QuantileOf(xs, qn, qd) ==
    IF xs = <<>> THEN NaN
    ELSE LET pos == (Len(xs) - 1) * qn
             lo == pos \div qd
             frac == Rat(pos % qd, qd)
         IN  IF pos % qd = 0 THEN xs[lo + 1]
             ELSE RatAdd(xs[lo + 1],
                         RatMul(RatSub(xs[lo + 2], xs[lo + 1]), frac))

\* Series.quantile(qn/qd): NaN skipped, NaN for a series without values
quantile(ser, qn, qd) ==
    LET xs == sorted(ser)
    IN  QuantileOf([i \in 1..Len(xs) |-> Val(xs[i])], qn, qd)

\* Series.median()
median(ser) == quantile(ser, 1, 2)

\* the distinct values present, in order of first appearance
RECURSIVE Uniques(_, _)
Uniques(ser, i) ==
    IF i > Len(ser) THEN <<>>
    ELSE LET rest == Uniques(ser, i + 1)
         IN  <<ser[i]>> \o SelectSeq(rest, LAMBDA c : c # ser[i])

\* Series.unique(): the distinct values, missing included
unique(ser) == Uniques(ser, 1)

\* Series.nunique(): missing values are not counted
nunique(ser) == Len(Uniques(dropna(ser), 1))

Occurrences(ser, v) == Cardinality({i \in 1..Len(ser) : ser[i] = v})

\* a faulty value_counts: missing values counted as a value (dropna=False)
value_counts_keepna(ser) ==
    LET us == Uniques(ser, 1)
    IN  Items(SortOrd([i \in 1..Len(us) |->
            [ord |-> Rat(-Occurrences(ser, us[i]), 1),
             it |-> [value |-> us[i], count |-> Occurrences(ser, us[i])]]]))

\* Series.value_counts(): one entry per value present (NaN dropped), most
\* frequent first; equal counts keep the order of first appearance
value_counts(ser) ==
    LET us == Uniques(dropna(ser), 1)
    IN  Items(SortOrd([i \in 1..Len(us) |->
            [ord |-> Rat(-Occurrences(ser, us[i]), 1),
             it |-> [value |-> us[i], count |-> Occurrences(ser, us[i])]]]))

\* Series.head(n)
head(xs, n) == SubSeq(xs, 1, IF Len(xs) < n THEN Len(xs) ELSE n)

\* value_counts().to_dict(): value -> count
to_dict(vc) ==
    [v \in {vc[i].value : i \in 1..Len(vc)} |->
        (CHOOSE e \in {vc[i] : i \in 1..Len(vc)} : e.value = v).count]

\* value_counts().sum()
RECURSIVE SumCounts(_, _)
SumCounts(vc, i) == IF i > Len(vc) THEN 0 ELSE vc[i].count + SumCounts(vc, i + 1)

\* value_counts().get(v, 0)
get(vc, v) ==
    IF \E i \in 1..Len(vc) : vc[i].value = v
    THEN (CHOOSE e \in {vc[i] : i \in 1..Len(vc)} : e.value = v).count
    ELSE 0

\* v in value_counts().index
InIndex(vc, v) == \E i \in 1..Len(vc) : vc[i].value = v

\* df.groupby(key): the group keys present (NaN keys dropped), ascending
GroupKeys(d, key) == sorted(Uniques(dropna(Col(d, key)), 1))

\* the rows of one group
Group(d, key, v) == Where(d, [i \in 1..len(d) |-> d.rows[i][key] = v])


(***************************************************************************)
(* The datasets the model loads.  A schema lists columns in file order,    *)
(* each with the cells a CSV of that kind holds; a dataset has any subset  *)
(* of a schema's columns and up to MaxRows rows.                            *)
(***************************************************************************)
StatusSchema ==
    << [name |-> "Status", cells |-> {Str("Shipped"), Str("Cancelled"), NA}] >>

CategorySchema ==
    << [name |-> "Category", cells |-> {Str("Set"), Str("kurta"), NA}],
       [name |-> "Amount", cells |-> {Num(10), Num(30), NA}] >>

GeoSchema ==
    << [name |-> "ship-state", cells |-> {Str("KA"), Str("MH"), NA}],
       [name |-> "ship-city", cells |-> {Str("BLR"), Str("MUM")}] >>

AddressSchema ==
    << [name |-> "ship-city", cells |-> {Str("BLR")}],
       [name |-> "ship-state", cells |-> {Str("KA")}],
       [name |-> "ship-postal-code", cells |-> {Num(560001)}],
       [name |-> "ship-country", cells |-> {Str("IN")}] >>

TrendSchema ==
    << [name |-> "Date",
        cells |-> {Str("2022-04-30"), Str("2022-05-01"), Str("not-a-date")}],
       [name |-> "Amount", cells |-> {Num(0), Num(10)}],
       [name |-> "Qty", cells |-> {Num(1)}] >>

\* a file with two time-bearing columns, the timestamp ahead of the date
EventSchema ==
    << [name |-> "Timestamp", cells |-> {Str("2022-05-01"), Str("not-a-date")}],
       [name |-> "Date", cells |-> {Str("2022-04-30")}],
       [name |-> "Amount", cells |-> {Num(10)}],
       [name |-> "Qty", cells |-> {Num(1)}] >>

PerformanceSchema ==
    << [name |-> "Order ID", cells |-> {Str("405-8078784-5731545")}],
       [name |-> "Sales Channel", cells |-> {Str("Amazon.in")}],
       [name |-> "Category", cells |-> {Str("Set"), Str("kurta")}],
       [name |-> "Qty", cells |-> {Num(0), Num(2)}],
       [name |-> "Amount", cells |-> {Num(10)}] >>

ShippingSchema ==
    << [name |-> "Fulfilment", cells |-> {Str("Amazon"), Str("Merchant")}],
       [name |-> "ship-service-level", cells |-> {Str("Expedited"), Str("Standard")}],
       [name |-> "Courier Status", cells |-> {Str("Shipped")}],
       [name |-> "Amount", cells |-> {Num(10)}] >>

ProductSchema ==
    << [name |-> "Style", cells |-> {Str("SET389")}],
       [name |-> "SKU", cells |-> {Str("JNE3781")}],
       [name |-> "ASIN", cells |-> {Str("B09K3WFS32")}],
       [name |-> "Size", cells |-> {Str("M"), Str("L")}],
       [name |-> "currency", cells |-> {Str("INR")}],
       [name |-> "Amount", cells |-> {Num(10)}] >>

\* the columns the dashboard's four selectors filter on
DashboardSchema ==
    << [name |-> "Status", cells |-> {Str("Shipped"), Str("Cancelled")}],
       [name |-> "Sales Channel", cells |-> {Str("Amazon.in")}],
       [name |-> "Category", cells |-> {Str("Set"), Str("kurta")}],
       [name |-> "ship-state", cells |-> {Str("KA")}] >>

Schemas == {StatusSchema, CategorySchema, GeoSchema, AddressSchema, TrendSchema,
            PerformanceSchema, ShippingSchema, ProductSchema}

\* the columns of schema s at the positions in idx, in file order
RECURSIVE Pick(_, _, _)
Pick(s, idx, i) ==
    IF i > Len(s) THEN <<>>
    ELSE (IF i \in idx THEN <<s[i].name>> ELSE <<>>) \o Pick(s, idx, i + 1)

\* the rows over those columns: one cell of the column's kind per column
RECURSIVE RowsOver(_, _)
RowsOver(s, idx) ==
    IF idx = {} THEN {<<>>}
    ELSE LET i == CHOOSE j \in idx : \A m \in idx : m <= j
         IN  {r @@ (s[i].name :> c) : r \in RowsOver(s, idx \ {i}), c \in s[i].cells}

\* pd.read_csv: a frame with the columns chosen and n rows (none without columns)
Frames(s, idx, n) ==
    {[columns |-> Pick(s, idx, 1), rows |-> rs] : rs \in [1..n -> RowsOver(s, idx)]}

(***************************************************************************)
(* Key Metrics Extractor                                                   *)
(***************************************************************************)
\* the returned mapping is a function from metric names to values; `Key`
\* adds one entry and `If` the entries of a guarded block
Key(k, v) == k :> v

If(cond, m) == IF cond THEN m ELSE <<>>

Returns(m) == [exc |-> "none", ret |-> m]

Raises(e) == [exc |-> e, ret |-> <<>>]

\* a faulty TopValue: a missing value for the 'N/A' sentinel
TopValueMissing(d, c) ==
    IF len(d) > 0 THEN value_counts(Col(d, c))[1].value ELSE NA

\* df[c].value_counts().index[0] if len(df) > 0 else 'N/A'
\* (index[0] of an empty index raises IndexError: see TopRaises)
TopValue(d, c) ==
    IF len(d) > 0 THEN value_counts(Col(d, c))[1].value ELSE Str("N/A")

TopRaises(d, c) == HasCol(d, c) /\ len(d) > 0 /\ value_counts(Col(d, c)) = <<>>

\* a faulty shipped_percentage: the division without its len(df) > 0 guard
shipped_percentage_unguarded(d) ==
    RatMul(RatDiv(Rat(get(value_counts(Col(d, "Status")), Str("Shipped")), 1),
                  Rat(len(d), 1)),
           Rat(100, 1))

\* (status_counts.get('Shipped', 0) / len(df)) * 100 if len(df) > 0 else 0
shipped_percentage(d) ==
    IF len(d) > 0
    THEN RatMul(RatDiv(Rat(get(value_counts(Col(d, "Status")), Str("Shipped")), 1),
                       Rat(len(d), 1)),
                Rat(100, 1))
    ELSE Rat(0, 1)

\* a faulty total_orders: the width of the frame, len(df.columns), for its height
total_orders_columns(d) == Len(d.columns)

\* metrics['total_orders'] = len(df)
total_orders(d) == len(d)

get_key_metrics(d) ==
    IF TopRaises(d, "Category") \/ TopRaises(d, "ship-state") \/ TopRaises(d, "ship-city")
    THEN Raises("IndexError")
    ELSE Returns(
        Key("total_orders", total_orders(d))
        @@ Key("total_revenue",
               IF HasCol(d, "Amount") THEN sum(Col(d, "Amount")) ELSE Rat(0, 1))
        @@ Key("avg_order_value",
               IF HasCol(d, "Amount") THEN mean(Col(d, "Amount")) ELSE Rat(0, 1))
        @@ Key("total_quantity",
               IF HasCol(d, "Qty") THEN sum(Col(d, "Qty")) ELSE Rat(0, 1))
        @@ If(HasCol(d, "Amount"),
              Key("revenue_std", std(Col(d, "Amount")))
              @@ Key("median_order_value", median(Col(d, "Amount")))
              @@ Key("max_order_value", max(Col(d, "Amount")))
              @@ Key("min_order_value", min(Col(d, "Amount"))))
        @@ If(HasCol(d, "Category"),
              Key("unique_categories", nunique(Col(d, "Category")))
              @@ Key("top_category", TopValue(d, "Category")))
        @@ If(HasCol(d, "ship-state"),
              Key("unique_states", nunique(Col(d, "ship-state")))
              @@ Key("top_state", TopValue(d, "ship-state")))
        @@ If(HasCol(d, "ship-city"),
              Key("unique_cities", nunique(Col(d, "ship-city")))
              @@ Key("top_city", TopValue(d, "ship-city")))
        @@ If(HasCol(d, "Status"),
              Key("status_distribution", to_dict(value_counts(Col(d, "Status"))))
              @@ Key("shipped_percentage", shipped_percentage(d)))
        @@ If(HasCol(d, "Fulfilment"),
              Key("fulfillment_distribution",
                  to_dict(value_counts(Col(d, "Fulfilment"))))))

(***************************************************************************)
(* Trend Extractor                                                         *)
(***************************************************************************)
\* the characters of the column names of the model
Chars(col) ==
    CASE col = "Status" -> <<"S", "t", "a", "t", "u", "s">>
      [] col = "Category" -> <<"C", "a", "t", "e", "g", "o", "r", "y">>
      [] col = "Amount" -> <<"A", "m", "o", "u", "n", "t">>
      [] col = "Qty" -> <<"Q", "t", "y">>
      [] col = "Date" -> <<"D", "a", "t", "e">>
      [] col = "Timestamp" -> <<"T", "i", "m", "e", "s", "t", "a", "m", "p">>
      [] col = "Order ID" -> <<"O", "r", "d", "e", "r", " ", "I", "D">>
      [] col = "Sales Channel" ->
             <<"S", "a", "l", "e", "s", " ", "C", "h", "a", "n", "n", "e", "l">>
      [] col = "Fulfilment" -> <<"F", "u", "l", "f", "i", "l", "m", "e", "n", "t">>
      [] col = "Courier Status" ->
             <<"C", "o", "u", "r", "i", "e", "r", " ", "S", "t", "a", "t", "u", "s">>
      [] col = "Style" -> <<"S", "t", "y", "l", "e">>
      [] col = "SKU" -> <<"S", "K", "U">>
      [] col = "ASIN" -> <<"A", "S", "I", "N">>
      [] col = "Size" -> <<"S", "i", "z", "e">>
      [] col = "currency" -> <<"c", "u", "r", "r", "e", "n", "c", "y">>
      [] col = "ship-state" -> <<"s", "h", "i", "p", "-", "s", "t", "a", "t", "e">>
      [] col = "ship-city" -> <<"s", "h", "i", "p", "-", "c", "i", "t", "y">>
      [] col = "ship-postal-code" ->
             <<"s", "h", "i", "p", "-", "p", "o", "s", "t", "a", "l", "-",
               "c", "o", "d", "e">>
      [] col = "ship-country" ->
             <<"s", "h", "i", "p", "-", "c", "o", "u", "n", "t", "r", "y">>
      [] col = "ship-service-level" ->
             <<"s", "h", "i", "p", "-", "s", "e", "r", "v", "i", "c", "e", "-",
               "l", "e", "v", "e", "l">>

UpperCase ==
    <<"A", "B", "C", "D", "E", "F", "G", "H", "I", "J", "K", "L", "M",
      "N", "O", "P", "Q", "R", "S", "T", "U", "V", "W", "X", "Y", "Z">>

LowerCase ==
    <<"a", "b", "c", "d", "e", "f", "g", "h", "i", "j", "k", "l", "m",
      "n", "o", "p", "q", "r", "s", "t", "u", "v", "w", "x", "y", "z">>

\* str.lower(): every upper-case letter replaced by its lower-case letter
lower(cs) ==
    [i \in 1..Len(cs) |->
        IF \E j \in 1..Len(UpperCase) : UpperCase[j] = cs[i]
        THEN LowerCase[CHOOSE j \in 1..Len(UpperCase) : UpperCase[j] = cs[i]]
        ELSE cs[i]]

\* sub in s: sub occurs in s as a run of consecutive characters
Contains(cs, sub) ==
    \E i \in 0..(Len(cs) - Len(sub)) : SubSeq(cs, i + 1, i + Len(sub)) = sub

\* 'date' in col.lower() or 'time' in col.lower()
IsDateName(col) ==
    \/ Contains(lower(Chars(col)), <<"d", "a", "t", "e">>)
    \/ Contains(lower(Chars(col)), <<"t", "i", "m", "e">>)

\* a faulty date_columns: the matching columns in reverse order, so that the
\* last one is taken
date_columns_reversed(d) ==
    LET cols == SelectSeq(d.columns, IsDateName)
    IN  [i \in 1..Len(cols) |-> cols[Len(cols) + 1 - i]]

\* date_columns = [col for col in df.columns if ...]
date_columns(d) == SelectSeq(d.columns, IsDateName)

\* pd.to_datetime of one text value: the timestamp yyyymmdd, or no parse
Parseable(s) == s \in {"2022-04-30", "2022-05-01"}

ParseDate(s) ==
    CASE s = "2022-04-30" -> 20220430
      [] s = "2022-05-01" -> 20220501

\* pd.to_datetime(series) raises when one text value does not parse
ToDatetimeRaises(ser) ==
    \E i \in 1..Len(ser) : ser[i].k = "str" /\ ~Parseable(ser[i].s)

\* pd.to_datetime(series): text parsed, missing values NaT, timestamps kept
to_datetime(ser) ==
    [i \in 1..Len(ser) |->
        IF ser[i].k = "str" THEN Ts(ParseDate(ser[i].s)) ELSE ser[i]]

\* df[c] = ser: the assignment changes the caller's frame in place
SetCol(d, c, ser) ==
    [columns |-> d.columns,
     rows |-> [i \in 1..Len(d.rows) |-> [d.rows[i] EXCEPT ![c] = ser[i]]]]

\* .dt.date and .dt.to_period('M') of a timestamp
date(c) == IF c.k = "ts" THEN Num(c.n) ELSE NA

to_period_M(c) == IF c.k = "ts" THEN Num(c.n \div 100) ELSE NA

\* df_sorted.groupby(keys).agg({'Amount': 'sum', 'Qty': 'sum'}).reset_index():
\* one row per key present (NaT dropped), ascending by key
SalesTable(d, keys) ==
    LET ks == sorted(Uniques(dropna(keys), 1))
        grp(v) == Where(d, [i \in 1..len(d) |-> keys[i] = v])
    IN  [j \in 1..Len(ks) |->
            [Date |-> ks[j].n,
             Amount |-> sum(Col(grp(ks[j]), "Amount")),
             Qty |-> sum(Col(grp(ks[j]), "Qty"))]]

\* ((last - first) / first) * 100 over daily_sales['Amount']
growth_rate(daily) ==
    RatMul(RatDiv(RatSub(daily[Len(daily)].Amount, daily[1].Amount),
                  daily[1].Amount),
           Rat(100, 1))

\* a faulty sales_trends_frame: the column is assigned also when a value does
\* not parse, such values becoming NaT (errors='coerce')
sales_trends_frame_coerce(d) ==
    IF date_columns(d) = <<>> THEN d
    ELSE LET date_col == date_columns(d)[1]
             ser == Col(d, date_col)
         IN  SetCol(d, date_col,
                    [i \in 1..Len(ser) |->
                        IF ser[i].k # "str" THEN ser[i]
                        ELSE IF Parseable(ser[i].s) THEN Ts(ParseDate(ser[i].s))
                        ELSE NA])

\* the frame the call leaves behind: line 67 assigns the parsed column to the
\* caller's frame before anything else is computed
sales_trends_frame(d) ==
    IF date_columns(d) = <<>> THEN d
    ELSE LET date_col == date_columns(d)[1]
         IN  IF ToDatetimeRaises(Col(d, date_col)) THEN d
             ELSE SetCol(d, date_col, to_datetime(Col(d, date_col)))

get_sales_trends(d) ==
    IF date_columns(d) = <<>> THEN Returns(<<>>)
    ELSE LET date_col == date_columns(d)[1]
             parsed == sales_trends_frame(d)
             daily_sales == SalesTable(parsed, [i \in 1..len(d) |->
                                date(parsed.rows[i][date_col])])
             monthly_sales == SalesTable(parsed, [i \in 1..len(d) |->
                                to_period_M(parsed.rows[i][date_col])])
         IN  IF ToDatetimeRaises(Col(d, date_col))
             THEN Returns(Key("error", "ValueError"))
             ELSE IF ~HasCol(d, "Amount") \/ ~HasCol(d, "Qty")
             \* agg() is given both columns whatever the frame holds: a
             \* missing one is a KeyError, caught by the except clause
             THEN Returns(Key("error", "KeyError"))
             ELSE Returns(
                 Key("daily_sales", daily_sales)
                 @@ Key("monthly_sales", monthly_sales)
                 @@ If(Len(daily_sales) > 1,
                       Key("growth_rate", growth_rate(daily_sales))))

(***************************************************************************)
(* Category / shipping / product / revenue breakdowns                      *)
(***************************************************************************)
\* df.groupby(key)['Amount'].agg(['sum', 'mean', 'count']).reset_index(),
\* columns renamed [<key>, Total_Revenue, Avg_Revenue, Order_Count]
RevenueTable(d, key) ==
    LET ks == GroupKeys(d, key)
    IN  [j \in 1..Len(ks) |->
            LET amt == Col(Group(d, key, ks[j]), "Amount")
            IN  [Key |-> ks[j], Total_Revenue |-> sum(amt),
                 Avg_Revenue |-> mean(amt), Order_Count |-> count(amt)]]

\* table.sort_values('Total_Revenue', ascending=False)
ByRevenue(t) ==
    Items(SortOrd([j \in 1..Len(t) |-> [ord |-> RatNeg(t[j].Total_Revenue), it |-> t[j]]]))

\* df[c].value_counts().to_dict()
Distribution(d, c) == to_dict(value_counts(Col(d, c)))

\* df[c].value_counts().head(n).to_dict()
Top(d, c, n) == to_dict(head(value_counts(Col(d, c)), n))

\* df.groupby('Category')['Qty'].agg(['sum', 'mean']).reset_index()
category_qty(d) ==
    LET ks == GroupKeys(d, "Category")
    IN  [j \in 1..Len(ks) |->
            LET qty == Col(Group(d, "Category", ks[j]), "Qty")
            IN  [Category |-> ks[j], Total_Qty |-> sum(qty), Avg_Qty |-> mean(qty)]]

\* a faulty category_performance: Revenue_per_Unit set to 0 for a group
\* whose total quantity is 0
category_performance_coerced(d) ==
    LET ks == GroupKeys(d, "Category")
    IN  [j \in 1..Len(ks) |->
            LET g == Group(d, "Category", ks[j])
                amt == Col(g, "Amount")
                qty == Col(g, "Qty")
            IN  [Category |-> ks[j], Total_Revenue |-> sum(amt),
                 Avg_Revenue |-> mean(amt), Revenue_Std |-> std(amt),
                 Total_Qty |-> sum(qty), Avg_Qty |-> mean(qty),
                 Order_Count |-> count(Col(g, "Order ID")),
                 Revenue_per_Unit |->
                     IF sum(qty) = Rat(0, 1) THEN Rat(0, 1)
                     ELSE RatDiv(sum(amt), sum(qty))]]

\* the category_performance table with its Revenue_per_Unit column
category_performance(d) ==
    LET ks == GroupKeys(d, "Category")
    IN  [j \in 1..Len(ks) |->
            LET g == Group(d, "Category", ks[j])
                amt == Col(g, "Amount")
                qty == Col(g, "Qty")
            IN  [Category |-> ks[j], Total_Revenue |-> sum(amt),
                 Avg_Revenue |-> mean(amt), Revenue_Std |-> std(amt),
                 Total_Qty |-> sum(qty), Avg_Qty |-> mean(qty),
                 Order_Count |-> count(Col(g, "Order ID")),
                 Revenue_per_Unit |-> RatDiv(sum(amt), sum(qty))]]

get_category_analysis(d) ==
    IF ~HasCol(d, "Category") THEN Returns(<<>>)
    ELSE IF HasCol(d, "Amount") /\ HasCol(d, "Qty") /\ ~HasCol(d, "Order ID")
    \* agg() names 'Order ID' whatever the frame holds
    THEN Raises("KeyError")
    ELSE Returns(
        Key("category_counts", Distribution(d, "Category"))
        @@ Key("top_categories", Top(d, "Category", 10))
        @@ If(HasCol(d, "Amount"),
              Key("category_revenue", ByRevenue(RevenueTable(d, "Category"))))
        @@ If(HasCol(d, "Qty"), Key("category_quantity", category_qty(d)))
        @@ If(HasCol(d, "Amount") /\ HasCol(d, "Qty"),
              Key("category_performance", category_performance(d))))

get_shipping_analysis(d) ==
    Returns(
        If(HasCol(d, "Fulfilment"),
           Key("fulfillment_distribution", Distribution(d, "Fulfilment"))
           @@ If(HasCol(d, "Amount"),
                 Key("fulfillment_revenue", RevenueTable(d, "Fulfilment"))))
        @@ If(HasCol(d, "Courier Status"),
              Key("courier_distribution", Distribution(d, "Courier Status")))
        @@ If(HasCol(d, "ship-service-level"),
              Key("service_level_distribution", Distribution(d, "ship-service-level"))
              @@ If(HasCol(d, "Amount"),
                    Key("service_level_revenue", RevenueTable(d, "ship-service-level"))))
        @@ If(HasCol(d, "ship-state"),
              Key("state_distribution", Distribution(d, "ship-state"))
              @@ Key("top_states", Top(d, "ship-state", 10))
              @@ If(HasCol(d, "Amount"),
                    Key("state_revenue", ByRevenue(RevenueTable(d, "ship-state")))))
        @@ If(HasCol(d, "ship-city"),
              Key("city_distribution", Distribution(d, "ship-city"))
              @@ Key("top_cities", Top(d, "ship-city", 10))))

get_product_analysis(d) ==
    Returns(
        If(HasCol(d, "SKU"),
           Key("sku_distribution", Distribution(d, "SKU"))
           @@ Key("top_skus", Top(d, "SKU", 10))
           @@ If(HasCol(d, "Amount"),
                 Key("sku_revenue", head(ByRevenue(RevenueTable(d, "SKU")), 20))))
        @@ If(HasCol(d, "ASIN"),
              Key("asin_distribution", Distribution(d, "ASIN"))
              @@ Key("top_asins", Top(d, "ASIN", 10))
              @@ If(HasCol(d, "Amount"),
                    Key("asin_revenue", head(ByRevenue(RevenueTable(d, "ASIN")), 20))))
        @@ If(HasCol(d, "Style"),
              Key("style_distribution", Distribution(d, "Style"))
              @@ Key("top_styles", Top(d, "Style", 10)))
        @@ If(HasCol(d, "Size"),
              Key("size_distribution", Distribution(d, "Size"))
              @@ Key("top_sizes", Top(d, "Size", 10))
              @@ If(HasCol(d, "Amount"),
                    Key("size_revenue", ByRevenue(RevenueTable(d, "Size"))))))

\* the three value segments of an amount x against the 50th and 90th
\* percentiles (comparisons with NaN are false)
high_value(x, q50, q90) == RatGt(x, q90)

\* a faulty medium_value: the 90th percentile itself left out
medium_value_strict(x, q50, q90) == RatGe(x, q50) /\ RatLt(x, q90)

medium_value(x, q50, q90) == RatGe(x, q50) /\ RatLe(x, q90)

low_value(x, q50, q90) == RatLt(x, q50)

\* len(df[mask]) for a boolean mask over the rows
CountWhere(mask) == Cardinality({i \in DOMAIN mask : mask[i]})

get_revenue_analysis(d) ==
    IF ~HasCol(d, "Amount") THEN Returns(<<>>)
    ELSE LET amt == Col(d, "Amount")
             q50 == quantile(amt, 1, 2)
             q90 == quantile(amt, 9, 10)
         IN  Returns(
                 Key("total_revenue", sum(amt))
                 @@ Key("avg_revenue", mean(amt))
                 @@ Key("median_revenue", median(amt))
                 @@ Key("revenue_std", std(amt))
                 @@ Key("max_revenue", max(amt))
                 @@ Key("min_revenue", min(amt))
                 @@ Key("revenue_quartiles",
                        <<quantile(amt, 1, 4), quantile(amt, 1, 2), quantile(amt, 3, 4)>>)
                 @@ Key("high_value_orders",
                        CountWhere([i \in 1..Len(amt) |-> high_value(Val(amt[i]), q50, q90)]))
                 @@ Key("medium_value_orders",
                        CountWhere([i \in 1..Len(amt) |-> medium_value(Val(amt[i]), q50, q90)]))
                 @@ Key("low_value_orders",
                        CountWhere([i \in 1..Len(amt) |-> low_value(Val(amt[i]), q50, q90)]))
                 @@ If(HasCol(d, "currency"),
                       Key("currency_revenue", RevenueTable(d, "currency"))))

(***************************************************************************)
(* Customer concentration                                                  *)
(***************************************************************************)
\* (value_counts().head(k).sum() / total_orders) * 100: the sum is a numpy
\* integer, so a zero total_orders gives NaN and no ZeroDivisionError
concentration(d, c, k) ==
    RatMul(RatDiv(Rat(SumCounts(head(value_counts(Col(d, c)), k), 1), 1),
                  Rat(len(d), 1)),
           Rat(100, 1))

get_customer_insights(d) ==
    IF HasCol(d, "ship-city") /\ ~HasCol(d, "ship-state")
    \* total_orders is assigned in the ship-state block only (line 288) and
    \* read in the ship-city block (line 298)
    THEN Raises("UnboundLocalError")
    ELSE Returns(
        If(HasCol(d, "ship-state"),
           Key("customers_by_state", Distribution(d, "ship-state"))
           @@ Key("top_5_states_concentration", concentration(d, "ship-state", 5)))
        @@ If(HasCol(d, "ship-city"),
              Key("customers_by_city", Distribution(d, "ship-city"))
              @@ Key("top_10_cities_concentration", concentration(d, "ship-city", 10)))
        @@ If(HasCol(d, "ship-postal-code"),
              Key("customers_by_postal", Top(d, "ship-postal-code", 20)))
        @@ If(HasCol(d, "ship-country"),
              Key("customers_by_country", Distribution(d, "ship-country"))))

(***************************************************************************)
(* Advanced analytics, summary report, executive summary                   *)
(***************************************************************************)
\* df.groupby('Sales Channel').agg({'Amount': [sum, mean, count],
\* 'Qty': [sum, mean]}).reset_index() with its six column names
channel_performance(d) ==
    LET ks == GroupKeys(d, "Sales Channel")
    IN  [j \in 1..Len(ks) |->
            LET g == Group(d, "Sales Channel", ks[j])
                amt == Col(g, "Amount")
                qty == Col(g, "Qty")
            IN  [Sales_Channel |-> ks[j], Total_Revenue |-> sum(amt),
                 Avg_Revenue |-> mean(amt), Order_Count |-> count(amt),
                 Total_Qty |-> sum(qty), Avg_Qty |-> mean(qty)]]

\* len(df[df['Qty'] > 1])
bulk_orders_count(d) ==
    Cardinality({i \in 1..len(d) : RatGt(Val(d.rows[i]["Qty"]), Rat(1, 1))})

get_advanced_analytics(d) ==
    IF HasCol(d, "Qty") /\ len(d) = 0
    \* len(bulk_orders) / len(df) divides two Python integers (line 326)
    THEN Raises("ZeroDivisionError")
    ELSE IF HasCol(d, "Sales Channel") /\ (~HasCol(d, "Amount") \/ ~HasCol(d, "Qty"))
    \* agg() is given 'Amount' and 'Qty' whatever the frame holds (lines 339-342)
    THEN Raises("KeyError")
    ELSE Returns(
        If(HasCol(d, "Qty"),
           Key("avg_order_size", mean(Col(d, "Qty")))
           @@ Key("order_size_distribution", Distribution(d, "Qty"))
           @@ Key("bulk_orders_count", bulk_orders_count(d))
           @@ Key("bulk_orders_percentage",
                  RatMul(Rat(bulk_orders_count(d), len(d)), Rat(100, 1))))
        @@ If(HasCol(d, "Status"),
              Key("status_distribution", Distribution(d, "Status"))
              @@ If(InIndex(value_counts(Col(d, "Status")), Str("Shipped")),
                    Key("fulfillment_rate",
                        RatMul(Rat(get(value_counts(Col(d, "Status")), Str("Shipped")),
                                   len(d)),
                               Rat(100, 1)))))
        @@ If(HasCol(d, "Sales Channel"),
              Key("channel_performance", channel_performance(d)))
        @@ If(HasCol(d, "Category"),
              Key("product_diversity", nunique(Col(d, "Category")))
              @@ Key("top_3_categories_concentration", concentration(d, "Category", 3)))
        @@ If(HasCol(d, "Size"),
              Key("size_preferences", Distribution(d, "Size"))
              @@ Key("most_popular_size",
                     IF value_counts(Col(d, "Size")) # <<>>
                     THEN value_counts(Col(d, "Size"))[1].value
                     ELSE Str("N/A"))))

\* the bytes of one column under memory_usage(deep=True): 8 per row, plus the
\* Python object behind every cell of an object column (a str of 49 + len
\* bytes, a float NaN of 24); datetime64 and float64 columns hold no objects
ColumnBytes(ser) ==
    LET IsObject == \E i \in 1..Len(ser) : ser[i].k = "str"
        CellBytes(c) == 8 + (IF c.k = "str" THEN 49 + StrLen(c.s)
                             ELSE IF IsObject THEN 24 ELSE 0)
        Total[i \in 0..Len(ser)] == IF i = 0 THEN 0 ELSE Total[i - 1] + CellBytes(ser[i])
    IN  Total[Len(ser)]

\* df.memory_usage(deep=True).sum(): the RangeIndex (128 bytes) and the columns
memory_usage(d) ==
    LET Total[j \in 0..Len(d.columns)] ==
            IF j = 0 THEN 128 ELSE Total[j - 1] + ColumnBytes(Col(d, d.columns[j]))
    IN  Total[Len(d.columns)]

generate_summary_report(d) ==
    IF get_key_metrics(d).exc # "none" THEN Raises(get_key_metrics(d).exc)
    ELSE Returns(
        Key("dataset_info",
            [total_records |-> len(d),
             total_columns |-> Len(d.columns),
             date_range |-> "N/A",
             memory_usage_mb |-> Rat(memory_usage(d), 1024 * 1024)])
        @@ Key("business_metrics", get_key_metrics(d).ret)
        @@ Key("top_performers",
               If(HasCol(d, "Category"), Key("categories", Top(d, "Category", 5)))
               @@ If(HasCol(d, "ship-state"), Key("states", Top(d, "ship-state", 5)))
               @@ If(HasCol(d, "SKU"), Key("skus", Top(d, "SKU", 5))))
        @@ If(HasCol(d, "Amount"),
              Key("revenue_insights", get_revenue_analysis(d).ret))
        @@ Key("operational_insights",
               If(HasCol(d, "Fulfilment"),
                  Key("fulfillment", Distribution(d, "Fulfilment")))
               @@ If(HasCol(d, "Courier Status"),
                     Key("courier_status", Distribution(d, "Courier Status")))
               @@ If(HasCol(d, "Status"),
                     Key("order_status", Distribution(d, "Status")))))

\* one line of text of the summary: the f-string's template and the value
\* formatted into it
Line(text, v) == [text |-> text, value |-> v]

\* df.groupby('Category')['Amount'].sum().sort_values(ascending=False)
category_revenue(d) ==
    LET ks == GroupKeys(d, "Category")
    IN  Items(SortOrd([j \in 1..Len(ks) |->
            [ord |-> RatNeg(sum(Col(Group(d, "Category", ks[j]), "Amount"))),
             it |-> ks[j]]]))

\* state_counts[state_counts < state_counts.quantile(0.25)]
underserved_states(d) ==
    LET state_counts == value_counts(Col(d, "ship-state"))
        q25 == quantile([i \in 1..Len(state_counts) |-> Num(state_counts[i].count)], 1, 4)
    IN  SelectSeq(state_counts, LAMBDA e : RatLt(Rat(e.count, 1), q25))

key_highlights(d) ==
    <<Line("Processed {total_orders:,} orders", len(d))>>
    \o (IF HasCol(d, "Amount")
        THEN <<Line("Generated ${total_revenue:,.2f} in total revenue",
                    sum(Col(d, "Amount"))),
               Line("Average order value: ${avg_order_value:.2f}",
                    mean(Col(d, "Amount")))>>
        ELSE <<>>)
    \o (IF HasCol(d, "ship-state")
        THEN <<Line("Served customers in {unique_states} states",
                    nunique(Col(d, "ship-state")))>>
        ELSE <<>>)
    \o (IF HasCol(d, "ship-city")
        THEN <<Line("Delivered to {unique_cities} cities",
                    nunique(Col(d, "ship-city")))>>
        ELSE <<>>)
    \o (IF HasCol(d, "Category")
        THEN <<Line("Sold products across {unique_categories} categories",
                    nunique(Col(d, "Category")))>>
        ELSE <<>>)
    \o (IF HasCol(d, "Status")
           /\ InIndex(value_counts(Col(d, "Status")), Str("Shipped"))
        THEN <<Line("Achieved {shipped_rate:.1f}% shipping rate",
                    RatMul(Rat(get(value_counts(Col(d, "Status")), Str("Shipped")),
                               len(d)),
                           Rat(100, 1)))>>
        ELSE <<>>)

growth_opportunities(d) ==
    (IF HasCol(d, "Category") /\ HasCol(d, "Amount")
     THEN <<Line("Focus on expanding {top_category} category", category_revenue(d)[1])>>
     ELSE <<>>)
    \o (IF HasCol(d, "ship-state") /\ Len(underserved_states(d)) > 0
        THEN <<Line("Opportunity to expand in {len(underserved_states)} underserved states",
                    Len(underserved_states(d)))>>
        ELSE <<>>)

create_executive_summary(d) ==
    IF HasCol(d, "Category") /\ HasCol(d, "Amount") /\ category_revenue(d) = <<>>
    \* category_revenue.index[0] on an empty index (line 460)
    THEN Raises("IndexError")
    ELSE Returns(
        Key("key_highlights", key_highlights(d))
        @@ Key("growth_opportunities", growth_opportunities(d)))

(***************************************************************************)
(* State machine                                                           *)
(***************************************************************************)
All == Str("All")

Init ==
    /\ \E s \in Schemas : \E idx \in SUBSET (1..Len(s)) :
         \E n \in 0..(IF idx = {} THEN 0 ELSE MaxRows) :
           df \in Frames(s, idx, n)
    /\ selected_status = All
    /\ selected_channel = All
    /\ selected_categories = {All}
    /\ selected_states = {All}
    /\ filtered_df = df
    /\ called = "none"
    /\ arg = df
    /\ result = <<>>
    /\ raised = "none"

\* one call f(filtered_df) of an engine function: `out` is what the function
\* does on the frame (exception, returned mapping), `after` the frame it leaves
Call(f, out, after) ==
    /\ called' = f
    /\ arg' = filtered_df
    /\ raised' = out.exc
    /\ result' = out.ret
    /\ filtered_df' = after
    /\ UNCHANGED <<df, selected_status, selected_channel, selected_categories,
                   selected_states>>

CallKeyMetrics ==
    Call("get_key_metrics", get_key_metrics(filtered_df), filtered_df)

CallSalesTrends ==
    Call("get_sales_trends", get_sales_trends(filtered_df),
         sales_trends_frame(filtered_df))

CallCategoryAnalysis ==
    Call("get_category_analysis", get_category_analysis(filtered_df), filtered_df)

CallShippingAnalysis ==
    Call("get_shipping_analysis", get_shipping_analysis(filtered_df), filtered_df)

CallProductAnalysis ==
    Call("get_product_analysis", get_product_analysis(filtered_df), filtered_df)

CallRevenueAnalysis ==
    Call("get_revenue_analysis", get_revenue_analysis(filtered_df), filtered_df)

CallCustomerInsights ==
    Call("get_customer_insights", get_customer_insights(filtered_df), filtered_df)

CallAdvancedAnalytics ==
    Call("get_advanced_analytics", get_advanced_analytics(filtered_df), filtered_df)

CallSummaryReport ==
    Call("generate_summary_report", generate_summary_report(filtered_df), filtered_df)

CallExecutiveSummary ==
    Call("create_executive_summary", create_executive_summary(filtered_df), filtered_df)

Next ==
    \/ CallKeyMetrics
    \/ CallSalesTrends
    \/ CallCategoryAnalysis
    \/ CallShippingAnalysis
    \/ CallProductAnalysis
    \/ CallRevenueAnalysis
    \/ CallCustomerInsights
    \/ CallAdvancedAnalytics
    \/ CallSummaryReport
    \/ CallExecutiveSummary

\* every engine function, called in any order on one frame
Spec == Init /\ [][Next]_vars

NextCore ==
    \/ CallKeyMetrics
    \/ CallCategoryAnalysis
    \/ CallRevenueAnalysis
    \/ CallSalesTrends

\* the three extractors whose outputs the contract's invariants constrain,
\* before and after the one engine function that writes to the frame
SpecCore == Init /\ [][NextCore]_vars

InitTrends ==
    /\ \E s \in {TrendSchema, EventSchema} : \E idx \in SUBSET (1..Len(s)) :
         \E n \in 0..(IF idx = {} THEN 0 ELSE MaxRows) :
           df \in Frames(s, idx, n)
    /\ selected_status = All
    /\ selected_channel = All
    /\ selected_categories = {All}
    /\ selected_states = {All}
    /\ filtered_df = df
    /\ called = "none"
    /\ arg = df
    /\ result = <<>>
    /\ raised = "none"

\* every engine function, in any order, on the datasets the Trend Extractor
\* has something to say about: files with date, amount and quantity columns
SpecTrends == InitTrends /\ [][Next]_vars

(***************************************************************************)
(* The dashboard: main() reruns on every widget change                     *)
(***************************************************************************)
\* ['All'] + list(df[c].unique()), or only 'All' without the column
options(d, c) ==
    IF HasCol(d, c)
    THEN {All} \cup {unique(Col(d, c))[i] : i \in 1..Len(unique(Col(d, c)))}
    ELSE {All}

\* a faulty Equals: the mask dropped, every row kept
Equals_unfiltered(d, c, selected) == d

\* filtered_df[filtered_df[c] == selected]: NaN equals nothing
Equals(d, c, selected) ==
    Where(d, [i \in 1..len(d) |-> notna(d.rows[i][c]) /\ d.rows[i][c] = selected])

\* filtered_df[filtered_df[c].isin(selected)]
IsIn(d, c, selected) == Where(d, [i \in 1..len(d) |-> d.rows[i][c] \in selected])

\* a faulty copy: the view of the previous run kept, the filters of this run
\* applied on top of it
copy_of_view(d) == filtered_df

\* df.copy(): a new frame holding the values of df
copy(d) == d

\* lines 198-210: the view of df under the four selectors
ApplyFilters(d, status, channel, categories, states) ==
    LET f0 == copy(d)
        f1 == IF status # All /\ HasCol(d, "Status")
              THEN Equals(f0, "Status", status) ELSE f0
        f2 == IF channel # All /\ HasCol(d, "Sales Channel")
              THEN Equals(f1, "Sales Channel", channel) ELSE f1
        f3 == IF All \notin categories /\ HasCol(d, "Category")
              THEN IsIn(f2, "Category", categories) ELSE f2
        f4 == IF All \notin states /\ HasCol(d, "ship-state")
              THEN IsIn(f3, "ship-state", states) ELSE f3
    IN  f4

\* one run of main() with the widgets as the user left them: the selectors are
\* read, the view is rebuilt from df, and what the previous run computed is
\* gone (the rest of main() renders the view)
main ==
    \E status \in options(df, "Status") :
    \E channel \in options(df, "Sales Channel") :
    \E categories \in SUBSET options(df, "Category") :
    \E states \in SUBSET options(df, "ship-state") :
        /\ selected_status' = status
        /\ selected_channel' = channel
        /\ selected_categories' = (IF HasCol(df, "Category") THEN categories ELSE {All})
        /\ selected_states' = (IF HasCol(df, "ship-state") THEN states ELSE {All})
        /\ filtered_df' = ApplyFilters(df, status, channel, selected_categories',
                                       selected_states')
        /\ called' = "none"
        /\ arg' = filtered_df'
        /\ result' = <<>>
        /\ raised' = "none"
        /\ UNCHANGED df

InitDashboard ==
    /\ \E idx \in SUBSET (1..Len(DashboardSchema)) :
         \E n \in 0..(IF idx = {} THEN 0 ELSE MaxLoadedRows) :
           df \in Frames(DashboardSchema, idx, n)
    /\ selected_status = All
    /\ selected_channel = All
    /\ selected_categories = {All}
    /\ selected_states = {All}
    /\ filtered_df = df
    /\ called = "none"
    /\ arg = df
    /\ result = <<>>
    /\ raised = "none"

NextDashboard ==
    \/ main
    \/ CallKeyMetrics
    \/ CallCategoryAnalysis

SpecDashboard == InitDashboard /\ [][NextDashboard]_vars

\* a file with the two columns filtered on, ship-state with rows that have
\* none, and a date column
SessionSchema ==
    << [name |-> "Status", cells |-> {Str("Shipped"), Str("Cancelled")}],
       [name |-> "ship-state", cells |-> {Str("KA"), NA}],
       [name |-> "Date", cells |-> {Str("2022-04-30")}] >>

InitSession ==
    /\ \E idx \in SUBSET (1..Len(SessionSchema)) :
         \E n \in 0..(IF idx = {} THEN 0 ELSE MaxLoadedRows) :
           df \in Frames(SessionSchema, idx, n)
    /\ selected_status = All
    /\ selected_channel = All
    /\ selected_categories = {All}
    /\ selected_states = {All}
    /\ filtered_df = df
    /\ called = "none"
    /\ arg = df
    /\ result = <<>>
    /\ raised = "none"

NextSession ==
    \/ main
    \/ CallKeyMetrics
    \/ CallSalesTrends

\* a user session: reruns of main() under changing selectors, the engine
\* called on the view of each run, get_sales_trends writing to that view
SpecSession == InitSession /\ [][NextSession]_vars

(***************************************************************************)
(* Properties                                                              *)
(***************************************************************************)
\* the last call returned a mapping holding key k
Has(k) == raised = "none" /\ k \in DOMAIN result

Returned(f) == called = f /\ raised = "none"

\* what f returns (or raises) when it is the first call on frame d
Outcome(f, d) ==
    CASE f = "get_key_metrics" -> get_key_metrics(d)
      [] f = "get_sales_trends" -> get_sales_trends(d)
      [] f = "get_category_analysis" -> get_category_analysis(d)
      [] f = "get_shipping_analysis" -> get_shipping_analysis(d)
      [] f = "get_product_analysis" -> get_product_analysis(d)
      [] f = "get_revenue_analysis" -> get_revenue_analysis(d)
      [] f = "get_customer_insights" -> get_customer_insights(d)
      [] f = "get_advanced_analytics" -> get_advanced_analytics(d)
      [] f = "generate_summary_report" -> generate_summary_report(d)
      [] f = "create_executive_summary" -> create_executive_summary(d)

\* the sum of the values of a mapping
RECURSIVE SumValues(_)
SumValues(m) ==
    IF DOMAIN m = {} THEN 0
    ELSE LET k == CHOOSE x \in DOMAIN m : TRUE
         IN  m[k] + SumValues([x \in DOMAIN m \ {k} |-> m[x]])

InPercentRange(x) == RatLe(Rat(0, 1), x) /\ RatLe(x, Rat(100, 1))

\* C1: on every dataset, every Insights Engine function returns a mapping
\* without raising.
C1_NeverRaises == raised = "none"

\* C2: no Insights Engine function modifies the dataset it is given: after
\* any call the frame holds the same values, of the same types, as before.
C2_InputUnchanged == called # "none" => filtered_df = arg

\* C3: the functions are order-independent: whatever was called before on the
\* same dataset, a function returns what it returns when called first.
C3_OrderIndependent ==
    called # "none" => [exc |-> raised, ret |-> result] = Outcome(called, df)

\* C4: for any dataset and any filtered view of it, get_key_metrics returns
\* total_orders equal to the number of rows of the frame it was given.
C4_TotalOrdersIsRowCount ==
    Returned("get_key_metrics") => result["total_orders"] = Len(arg.rows)

\* C4 witness: get_key_metrics has run on a view that a selector narrowed to
\* some, not all, of the loaded rows.
C4_Witness ==
    /\ Returned("get_key_metrics")
    /\ selected_status # All
    /\ Len(arg.rows) > 0
    /\ Len(arg.rows) < Len(df.rows)
    /\ result["total_orders"] = Len(arg.rows)

\* C5: with a Status column, shipped_percentage lies in [0, 100] on every
\* non-empty dataset, and is exactly 0 when there are no rows or no row is
\* "Shipped".
C5_ShippedPercentage ==
    (Returned("get_key_metrics") /\ HasCol(arg, "Status")) =>
        /\ Has("shipped_percentage")
        /\ Len(arg.rows) > 0 => InPercentRange(result["shipped_percentage"])
        /\ (\A i \in 1..Len(arg.rows) : arg.rows[i]["Status"] # Str("Shipped"))
               => result["shipped_percentage"] = Rat(0, 1)

\* C5 witness: some rows, not all of them, are "Shipped", and the percentage
\* lies strictly between 0 and 100.
C5_Witness ==
    /\ Returned("get_key_metrics")
    /\ HasCol(arg, "Status")
    /\ RatLt(Rat(0, 1), result["shipped_percentage"])
    /\ RatLt(result["shipped_percentage"], Rat(100, 1))

\* C6 as claimed: with a Category column, the counts of category_counts sum
\* to the row count, also when some rows have no category value.
C6_CountsSumToRows ==
    (Returned("get_category_analysis") /\ HasCol(arg, "Category")) =>
        SumValues(result["category_counts"]) = Len(arg.rows)

\* C6 as amended: with a Category column, the counts of category_counts sum
\* to the number of rows that have a category value.
C6_CountsSumToCategorised ==
    (Returned("get_category_analysis") /\ HasCol(arg, "Category")) =>
        SumValues(result["category_counts"]) =
            Cardinality({i \in 1..Len(arg.rows) : arg.rows[i]["Category"].k # "nan"})

\* C6 witness: category_counts over rows of which one has a category and one
\* has none.
C6_Witness ==
    /\ Returned("get_category_analysis")
    /\ HasCol(arg, "Category")
    /\ \E i, j \in 1..Len(arg.rows) :
           arg.rows[i]["Category"].k = "nan" /\ arg.rows[j]["Category"].k = "str"
    /\ SumValues(result["category_counts"]) > 0

\* C7 as claimed: with an Amount column and at least one row, the high,
\* medium and low segment counts sum to the row count.
C7_SegmentsSumToRows ==
    (Returned("get_revenue_analysis") /\ HasCol(arg, "Amount") /\ Len(arg.rows) > 0) =>
        result["high_value_orders"] + result["medium_value_orders"]
            + result["low_value_orders"] = Len(arg.rows)

\* C7 as amended: with an Amount column, the high, medium and low segment
\* counts sum to the number of rows that have an amount.
C7_SegmentsSumToPriced ==
    (Returned("get_revenue_analysis") /\ HasCol(arg, "Amount")) =>
        result["high_value_orders"] + result["medium_value_orders"]
            + result["low_value_orders"] =
            Cardinality({i \in 1..Len(arg.rows) : arg.rows[i]["Amount"].k # "nan"})

\* C7 witness: segments over rows with and without an amount, with an order
\* in the high and an order in the low segment.
C7_Witness ==
    /\ Returned("get_revenue_analysis")
    /\ HasCol(arg, "Amount")
    /\ \E i \in 1..Len(arg.rows) : arg.rows[i]["Amount"].k = "nan"
    /\ result["high_value_orders"] > 0
    /\ result["low_value_orders"] > 0

\* C8: wherever get_customer_insights produces them, top_5_states_concentration
\* and top_10_cities_concentration are numbers within [0, 100].
C8_ConcentrationsInRange ==
    Returned("get_customer_insights") =>
        /\ Has("top_5_states_concentration")
               => InPercentRange(result["top_5_states_concentration"])
        /\ Has("top_10_cities_concentration")
               => InPercentRange(result["top_10_cities_concentration"])

\* C9: on zero rows get_customer_insights does not crash and each ratio is 0
\* or the not-applicable marker; and the city concentration is produced
\* whenever the ship-city column is present, with or without ship-state.
C9_ZeroRowsGuarded ==
    called = "get_customer_insights" =>
        /\ Len(arg.rows) = 0 =>
              /\ raised = "none"
              /\ \A k \in {"top_5_states_concentration", "top_10_cities_concentration"} :
                    Has(k) => (result[k] = Rat(0, 1) \/ result[k] = Str("N/A"))
        /\ HasCol(arg, "ship-city") => Has("top_10_cities_concentration")

\* C10: on the empty dataset get_key_metrics raises nothing, returns
\* total_orders = 0, and top_category, top_state and top_city are "N/A" for
\* each of the columns present.
C10_EmptyDataset ==
    (called = "get_key_metrics" /\ Len(arg.rows) = 0) =>
        /\ raised = "none"
        /\ result["total_orders"] = 0
        /\ HasCol(arg, "Category") => result["top_category"] = Str("N/A")
        /\ HasCol(arg, "ship-state") => result["top_state"] = Str("N/A")
        /\ HasCol(arg, "ship-city") => result["top_city"] = Str("N/A")

\* C10 witness: get_key_metrics has returned on a frame with ship-state and
\* ship-city columns and no rows.
C10_Witness ==
    /\ Returned("get_key_metrics")
    /\ Len(arg.rows) = 0
    /\ HasCol(arg, "ship-state")
    /\ HasCol(arg, "ship-city")
    /\ result["top_state"] = Str("N/A")

\* C11: for a dataset with no Amount column, get_key_metrics returns
\* total_revenue absent or 0 and none of revenue_std, median/max/min_order_value;
\* get_revenue_analysis returns no segment counts; get_category_analysis
\* returns neither category_revenue nor category_performance; and none of
\* these calls raises.
C11_NoAmountColumn ==
    ~HasCol(arg, "Amount") =>
        /\ called = "get_key_metrics" =>
              /\ raised = "none"
              /\ "total_revenue" \in DOMAIN result
                     => result["total_revenue"] = Rat(0, 1)
              /\ DOMAIN result \cap {"revenue_std", "median_order_value",
                                     "max_order_value", "min_order_value"} = {}
        /\ called = "get_revenue_analysis" =>
              /\ raised = "none"
              /\ DOMAIN result \cap {"high_value_orders", "medium_value_orders",
                                     "low_value_orders"} = {}
        /\ called = "get_category_analysis" =>
              /\ raised = "none"
              /\ DOMAIN result \cap {"category_revenue", "category_performance"} = {}

\* C12: when the dataset is filtered to the rows whose Status equals a value s
\* occurring in the data and get_key_metrics runs on the filtered result,
\* status_distribution has the single key s, and its value is the number of
\* rows of the filtered result (the rows of the dataset whose status is s).
C12_StatusRoundTrip ==
    (/\ Returned("get_key_metrics")
     /\ HasCol(df, "Status")
     /\ selected_status # All
     /\ selected_channel = All
     /\ All \in selected_categories
     /\ All \in selected_states)
    => /\ \E i \in 1..Len(df.rows) : df.rows[i]["Status"] = selected_status
       /\ Len(arg.rows) =
              Cardinality({i \in 1..Len(df.rows) : df.rows[i]["Status"] = selected_status})
       /\ DOMAIN result["status_distribution"] = {selected_status}
       /\ result["status_distribution"][selected_status] = Len(arg.rows)

\* C12 witness: the dataset holds two statuses, the status selector keeps the
\* "Shipped" rows only, and get_key_metrics has returned on that view.
C12_Witness ==
    /\ Returned("get_key_metrics")
    /\ HasCol(df, "Status")
    /\ selected_status = Str("Shipped")
    /\ selected_channel = All
    /\ All \in selected_categories
    /\ All \in selected_states
    /\ \E i \in 1..Len(df.rows) : df.rows[i]["Status"] = Str("Cancelled")
    /\ result["status_distribution"] = (Str("Shipped") :> Len(arg.rows))

\* the time-bearing column of a trend dataset that comes first in the file:
\* Timestamp stands ahead of Date
FirstTimeColumn(d) == IF HasCol(d, "Timestamp") THEN "Timestamp" ELSE "Date"

HasTimeColumn(d) == HasCol(d, "Timestamp") \/ HasCol(d, "Date")

\* some value of that column is text that is no date
Unparseable(d) ==
    /\ HasTimeColumn(d)
    /\ \E i \in 1..Len(d.rows) : d.rows[i][FirstTimeColumn(d)] = Str("not-a-date")

\* C13: when the detected date column holds values that do not parse,
\* get_sales_trends does not raise and returns a mapping with the key error
\* and without daily_sales and monthly_sales; and every engine function called
\* on that dataset, before or after the failure, returns what it returns when
\* called first.
C13_UnparseableDates ==
    Unparseable(df) =>
        /\ called = "get_sales_trends" =>
              /\ raised = "none"
              /\ "error" \in DOMAIN result
              /\ "daily_sales" \notin DOMAIN result
              /\ "monthly_sales" \notin DOMAIN result
        /\ called # "none" =>
              [exc |-> raised, ret |-> result] = Outcome(called, df)

\* C13 witness: get_sales_trends has reported the parse error of a date
\* column in which one value parses and one does not.
C13_Witness ==
    /\ called = "get_sales_trends"
    /\ Unparseable(arg)
    /\ \E i \in 1..Len(arg.rows) : arg.rows[i][FirstTimeColumn(arg)] = Str("2022-05-01")
    /\ raised = "none"
    /\ DOMAIN result = {"error"}
    /\ filtered_df = df

\* the sum of the amounts of the first i rows, and the rows that have one
RECURSIVE AmountTotal(_, _)
AmountTotal(d, i) ==
    IF i = 0 THEN 0
    ELSE (IF d.rows[i]["Amount"].k = "num" THEN d.rows[i]["Amount"].n ELSE 0)
         + AmountTotal(d, i - 1)

Priced(d) == {i \in 1..Len(d.rows) : d.rows[i]["Amount"].k = "num"}

\* the category values of a frame and the number of rows holding one of them
Categories(d) ==
    {d.rows[i]["Category"] : i \in {j \in 1..Len(d.rows) : d.rows[j]["Category"].k = "str"}}

Frequency(d, c) == Cardinality({i \in 1..Len(d.rows) : d.rows[i]["Category"] = c})

\* what C14 says of total_revenue, unique_categories and top_category
KeyMetricsOfCategories ==
    /\ result["total_revenue"] = Rat(AmountTotal(arg, Len(arg.rows)), 1)
    /\ result["unique_categories"] = Cardinality(Categories(arg))
    /\ result["top_category"] \in Categories(arg)
    /\ \A c \in Categories(arg) :
           Frequency(arg, c) <= Frequency(arg, result["top_category"])

Satisfies(r, d, status, channel, categories, states) ==
    /\ (status # All /\ HasCol(d, "Status")) => r["Status"] = status
    /\ (channel # All /\ HasCol(d, "Sales Channel")) => r["Sales Channel"] = channel
    /\ (All \notin categories /\ HasCol(d, "Category")) => r["Category"] \in categories
    /\ (All \notin states /\ HasCol(d, "ship-state")) => r["ship-state"] \in states

\* the rows of d that pass, in the order of d
BaseView(d, status, channel, categories, states) ==
    [columns |-> d.columns,
     rows |-> SelectSeq(d.rows,
                        LAMBDA r : Satisfies(r, d, status, channel, categories, states))]

DayOf(c) ==
    IF c.k = "ts" THEN c.n
    ELSE IF c = Str("2022-04-30") THEN 20220430
    ELSE 20220501

\* the calendar days of a trend dataset whose dates parse
Days(d) == {DayOf(d.rows[i][FirstTimeColumn(d)]) : i \in 1..Len(d.rows)}

\* the sum of the Amount column of a table
RECURSIVE TableAmount(_, _)
TableAmount(t, i) ==
    IF i = 0 THEN Rat(0, 1) ELSE RatAdd(t[i].Amount, TableAmount(t, i - 1))

\* C16: with a date column that parses and no Amount column (or no Qty
\* column), get_sales_trends still returns daily_sales and monthly_sales, the
\* rows counted in place of the missing column's sum, and reports no error.
C16_CountsForMissingColumn ==
    (/\ called = "get_sales_trends"
     /\ HasTimeColumn(arg)
     /\ ~Unparseable(arg)
     /\ ~HasCol(arg, "Amount") \/ ~HasCol(arg, "Qty"))
    => /\ raised = "none"
       /\ "error" \notin DOMAIN result
       /\ "daily_sales" \in DOMAIN result
       /\ "monthly_sales" \in DOMAIN result
       /\ ~HasCol(arg, "Amount") =>
              /\ TableAmount(result["daily_sales"], Len(result["daily_sales"]))
                     = Rat(Len(arg.rows), 1)
              /\ TableAmount(result["monthly_sales"], Len(result["monthly_sales"]))
                     = Rat(Len(arg.rows), 1)

\* the summed amount of the rows of one calendar day
RECURSIVE DayAmount(_, _, _)
DayAmount(d, day, i) ==
    IF i = 0 THEN 0
    ELSE (IF DayOf(d.rows[i][FirstTimeColumn(d)]) = day /\ d.rows[i]["Amount"].k = "num"
          THEN d.rows[i]["Amount"].n ELSE 0)
         + DayAmount(d, day, i - 1)

FirstDay(d) == CHOOSE x \in Days(d) : \A y \in Days(d) : x <= y

LastDay(d) == CHOOSE x \in Days(d) : \A y \in Days(d) : y <= x

\* C18: get_sales_trends returns growth_rate if and only if the dates parse
\* and the dataset has at least two distinct calendar days; its value is then
\* (amount of the last day - amount of the first day) / amount of the first
\* day * 100, the days taken in date order whatever the order of the rows.
C18_GrowthRate ==
    (called = "get_sales_trends" /\ HasTimeColumn(arg)) =>
        /\ raised = "none"
        /\ "growth_rate" \in DOMAIN result
               <=> (~Unparseable(arg) /\ Cardinality(Days(arg)) >= 2)
        /\ "growth_rate" \in DOMAIN result =>
               LET first == Rat(DayAmount(arg, FirstDay(arg), Len(arg.rows)), 1)
                   last == Rat(DayAmount(arg, LastDay(arg), Len(arg.rows)), 1)
               IN  result["growth_rate"] =
                       RatMul(RatDiv(RatSub(last, first), first), Rat(100, 1))

\* C19: get_sales_trends takes as date column the first column of the frame
\* whose name contains "date" or "time" in any case: its values decide whether
\* the dates parse, it is the column parsed, and its days are those of
\* daily_sales; a matching column behind it is left as it is; and without a
\* matching column the result is the empty mapping.
C19_FirstDateColumnWins ==
    called = "get_sales_trends" =>
        /\ raised = "none"
        /\ ~HasTimeColumn(arg) => (result = <<>> /\ filtered_df = arg)
        /\ HasTimeColumn(arg) => result # <<>>
        /\ Unparseable(arg) => (result = ("error" :> "ValueError") /\ filtered_df = arg)
        /\ (HasTimeColumn(arg) /\ ~Unparseable(arg)) =>
              /\ \A i \in 1..Len(filtered_df.rows) :
                     filtered_df.rows[i][FirstTimeColumn(arg)].k # "str"
              /\ "daily_sales" \in DOMAIN result =>
                     {result["daily_sales"][j].Date : j \in 1..Len(result["daily_sales"])}
                         = Days(arg)
        /\ (HasCol(arg, "Timestamp") /\ HasCol(arg, "Date")) =>
               Col(filtered_df, "Date") = Col(arg, "Date")

\* C19 witness: a frame with a Timestamp column ahead of a Date column, both
\* holding dates: daily_sales is over the day of the timestamp, and the Date
\* column still holds text.
C19_Witness ==
    /\ called = "get_sales_trends"
    /\ HasCol(arg, "Timestamp") /\ HasCol(arg, "Date")
    /\ "daily_sales" \in DOMAIN result
    /\ Len(result["daily_sales"]) = 1
    /\ result["daily_sales"][1].Date = 20220501
    /\ \A i \in 1..Len(filtered_df.rows) :
           /\ filtered_df.rows[i]["Timestamp"].k = "ts"
           /\ filtered_df.rows[i]["Date"] = Str("2022-04-30")

\* the total quantity of the rows of one category
RECURSIVE CategoryQty(_, _, _)
CategoryQty(d, c, i) ==
    IF i = 0 THEN 0
    ELSE (IF d.rows[i]["Category"] = c /\ d.rows[i]["Qty"].k = "num"
          THEN d.rows[i]["Qty"].n ELSE 0)
         + CategoryQty(d, c, i - 1)

\* a float that is neither 0 nor any finite number: NaN or an infinity
NotFinite(x) == x.den = 0

\* C17: in get_category_analysis the division total revenue / total quantity
\* does not raise, and wherever category_performance is produced, a category
\* whose total quantity is zero has a Revenue_per_Unit that is neither 0 nor
\* a finite number.
C17_RevenuePerUnit ==
    called = "get_category_analysis" =>
        /\ (/\ HasCol(arg, "Category") /\ HasCol(arg, "Amount")
            /\ HasCol(arg, "Qty") /\ HasCol(arg, "Order ID"))
               => (raised = "none" /\ "category_performance" \in DOMAIN result)
        /\ Has("category_performance") =>
               \A j \in 1..Len(result["category_performance"]) :
                   LET row == result["category_performance"][j]
                   IN  CategoryQty(arg, row.Category, Len(arg.rows)) = 0
                           => NotFinite(row.Revenue_per_Unit)

\* C17 witness: category_performance with a category of total quantity zero,
\* whose Revenue_per_Unit is infinite, beside a category sold at 5 per unit.
C17_Witness ==
    /\ Returned("get_category_analysis")
    /\ Has("category_performance")
    /\ \E j, k \in 1..Len(result["category_performance"]) :
           /\ result["category_performance"][j].Total_Qty = Rat(0, 1)
           /\ result["category_performance"][j].Revenue_per_Unit = Rat(1, 0)
           /\ result["category_performance"][k].Revenue_per_Unit = Rat(5, 1)

\* the summed amount of the rows of one category
RECURSIVE CategoryAmount(_, _, _)
CategoryAmount(d, c, i) ==
    IF i = 0 THEN 0
    ELSE (IF d.rows[i]["Category"] = c /\ d.rows[i]["Amount"].k = "num"
          THEN d.rows[i]["Amount"].n ELSE 0)
         + CategoryAmount(d, c, i - 1)

\* the ship-states whose order count lies strictly below the 25th percentile
\* of the order counts of all ship-states
Underserved(d) ==
    LET states == {d.rows[i]["ship-state"] :
                      i \in {j \in 1..Len(d.rows) : d.rows[j]["ship-state"].k = "str"}}
        orders(st) == Cardinality({i \in 1..Len(d.rows) : d.rows[i]["ship-state"] = st})
        counts == value_counts(Col(d, "ship-state"))
        q25 == quantile([i \in 1..Len(counts) |-> Num(counts[i].count)], 1, 4)
    IN  {st \in states : RatLt(Rat(orders(st), 1), q25)}

\* the entries of growth_opportunities written from one template
Opportunities(text) ==
    {i \in 1..Len(result["growth_opportunities"]) :
        result["growth_opportunities"][i].text = text}

\* C20: on every dataset, the empty one included, create_executive_summary
\* returns growth_opportunities; with Category and Amount columns it names a
\* category of greatest summed amount; and it holds the underserved-states
\* entry exactly when some ship-state has an order count strictly below the
\* 25th percentile of the per-state counts, with the number of such states.
C20_GrowthOpportunities ==
    called = "create_executive_summary" =>
        /\ raised = "none"
        /\ "growth_opportunities" \in DOMAIN result
        /\ (HasCol(arg, "Category") /\ HasCol(arg, "Amount") /\ Categories(arg) # {}) =>
               \E i \in Opportunities("Focus on expanding {top_category} category") :
                   LET top == result["growth_opportunities"][i].value
                   IN  /\ top \in Categories(arg)
                       /\ \A c \in Categories(arg) :
                              CategoryAmount(arg, c, Len(arg.rows))
                                  <= CategoryAmount(arg, top, Len(arg.rows))
        /\ LET entries == Opportunities(
                   "Opportunity to expand in {len(underserved_states)} underserved states")
           IN  /\ entries # {} <=> (HasCol(arg, "ship-state") /\ Underserved(arg) # {})
               /\ \A i \in entries :
                      result["growth_opportunities"][i].value
                          = Cardinality(Underserved(arg))

====
